---- MODULE Spec2Model ----
(***************************************************************************)
(* postboard (pb): a command-line key-value client over one SQL table.     *)
(*                                                                         *)
(* Strings and byte sequences are sequences of one-character strings, so   *)
(* that prefixes, the trailing '*' and the LIKE pattern are computed       *)
(* character by character.  The table postboard_kvs is the sequence of     *)
(* its rows in the engine's scan order (the queries carry no ORDER BY);    *)
(* a new row is placed at the end of that order.                           *)
(*                                                                         *)
(* Environment: the configuration file holds a usable DSN, the server is   *)
(* reachable, the table exists with the schema of the DDL in main.go       *)
(* (k VARCHAR(255) PRIMARY KEY, v BLOB), the server runs in strict SQL     *)
(* mode and compares k with a binary collation.  Each statement is atomic  *)
(* (autocommit), so a handler with one statement is one step and the loop  *)
(* of get <prefix>* is one step per statement.                             *)
(***************************************************************************)
EXTENDS Integers, Sequences, FiniteSets, TLC

\* ------------------------------------------------------------------ bounds

\* number of terminals from which pb is invoked, possibly at the same time
NumProcs == 2
\* rows of the bulk tables (SpecList) whose key does not start with "a": 0..MaxOther
MaxOther == 2

\* ------------------------------------------------------- program constants

\* LIMIT 1000 of the listing query
Limit == 1000
\* k VARCHAR(255)
MaxKeyLen == 255
\* v BLOB: at most 2^16 - 1 bytes
MaxBlobLen == 65535

Procs == 1..NumProcs

Nil == "nil"
ErrNoRows == "sql: no rows in result set"
ErrKeyEmpty == "key is empty"
ErrDataTooLong == "Error 1406: Data too long for column"

\* ------------------------------------------------------------------ strings

Rep(c, n) == [i \in 1..n |-> c]

Last(s) == s[Len(s)]

Front(s) == SubSeq(s, 1, Len(s) - 1)

\* the literal prefix relation on strings
StartsWith(s, p) == Len(p) <= Len(s) /\ SubSeq(s, 1, Len(p)) = p

RECURSIVE SkipSpaces(_)
SkipSpaces(s) ==
    IF s /= <<>> /\ Head(s) = " " THEN SkipSpaces(Tail(s)) ELSE s

RECURSIVE Token(_)
Token(s) ==
    IF s = <<>> \/ Head(s) = " " THEN <<>> ELSE <<Head(s)>> \o Token(Tail(s))

\* fmt.Scanln(&value) on one line of standard input: the first
\* space-separated token of the line ("" for an empty line)
Scanln(line) == Token(SkipSpaces(line))

\* SQL LIKE: '%' matches any run of characters, '_' any one character,
\* '\' makes the next pattern character literal
RECURSIVE LikeMatch(_, _)
LikeMatch(s, pat) ==
    IF pat = <<>> THEN s = <<>>
    ELSE IF Head(pat) = "%"
         THEN LikeMatch(s, Tail(pat)) \/ (s /= <<>> /\ LikeMatch(Tail(s), pat))
    ELSE IF Head(pat) = "_"
         THEN s /= <<>> /\ LikeMatch(Tail(s), Tail(pat))
    ELSE IF Head(pat) = "\\" /\ Len(pat) > 1
         THEN s /= <<>> /\ Head(s) = pat[2] /\ LikeMatch(Tail(s), Tail(Tail(pat)))
    ELSE s /= <<>> /\ Head(s) = Head(pat) /\ LikeMatch(Tail(s), Tail(pat))

\* -------------------------------------------------------------------- store

VARIABLES db, pc, cmd, args, keysOnly, keys, out, err, calls, affected

vars == <<db, pc, cmd, args, keysOnly, keys, out, err, calls, affected>>

\* the positions of the rows of table d whose key is k
RowsOf(d, k) == {i \in 1..Len(d) : d[i].k = k}

\* the keys of table d, in scan order
KeysOf(d) == [i \in 1..Len(d) |-> d[i].k]

\* INSERT ... ON DUPLICATE KEY UPDATE v = VALUES(v) with plain INSERT semantics
\* (no key constraint): always a new row
putKeyValue_Insert(d, k, value) ==
    [db |-> Append(d, [k |-> k, v |-> value]), err |-> Nil, affected |-> 1]

\* the upsert that keeps the old value of an existing row (INSERT IGNORE)
putKeyValue_Ignore(d, k, value) ==
    IF Len(k) > MaxKeyLen \/ Len(value) > MaxBlobLen
    THEN [db |-> d, err |-> ErrDataTooLong, affected |-> 0]
    ELSE IF RowsOf(d, k) /= {}
    THEN [db |-> d, err |-> Nil, affected |-> 0]
    ELSE [db |-> Append(d, [k |-> k, v |-> value]), err |-> Nil, affected |-> 1]

\* putKeyValue: the table after the statement, its error, and the rows
\* affected the server reports (1 insert, 2 update, 0 no change)
putKeyValue(d, k, value) ==
    IF Len(k) > MaxKeyLen \/ Len(value) > MaxBlobLen
    THEN [db |-> d, err |-> ErrDataTooLong, affected |-> 0]
    ELSE IF RowsOf(d, k) /= {}
    THEN [db |-> [i \in 1..Len(d) |->
                    IF d[i].k = k THEN [d[i] EXCEPT !.v = value] ELSE d[i]],
          err |-> Nil,
          affected |-> IF \A i \in RowsOf(d, k) : d[i].v = value THEN 0 ELSE 2]
    ELSE [db |-> Append(d, [k |-> k, v |-> value]), err |-> Nil, affected |-> 1]

\* a lookup that reports a missing row as an empty value
getKey_Empty(d, k) ==
    IF RowsOf(d, k) = {}
    THEN [value |-> <<>>, err |-> Nil]
    ELSE [value |-> d[CHOOSE i \in RowsOf(d, k) : \A j \in RowsOf(d, k) : i <= j].v,
          err |-> Nil]

\* getKey: QueryRow(...).Scan(&value) scans the first row of the result,
\* or fails with sql.ErrNoRows and leaves value nil
getKey(d, k) ==
    IF RowsOf(d, k) = {}
    THEN [value |-> <<>>, err |-> ErrNoRows]
    ELSE [value |-> d[CHOOSE i \in RowsOf(d, k) : \A j \in RowsOf(d, k) : i <= j].v,
          err |-> Nil]

\* the first n elements of s
Take(s, n) == IF Len(s) <= n THEN s ELSE SubSeq(s, 1, n)

\* the listing query without its LIMIT
listKeysWithPrefix_NoLimit(d, prefix) ==
    SelectSeq(KeysOf(d), LAMBDA k : LikeMatch(k, prefix \o <<"%">>))

\* listKeysWithPrefix: SELECT k ... WHERE k LIKE prefix+"%" LIMIT 1000
listKeysWithPrefix(d, prefix) ==
    Take(SelectSeq(KeysOf(d), LAMBDA k : LikeMatch(k, prefix \o <<"%">>)), Limit)

\* prepareDatabase: CREATE TABLE IF NOT EXISTS leaves an existing table as it is
prepareDatabase(d) == d

\* ----------------------------------------------------------------- commands

\* c.Arg(name).String() of the i-th positional argument: "" when it is absent
Arg(a, i) == IF Len(a) >= i THEN a[i] ELSE <<>>

\* main up to app.Run: the connection is resolved (loadConfig, sql.Open)
\* and the command is dispatched; nothing else runs before the handler
Prelude == <<"loadConfig", "sql.Open">>

\* a set handler without the check of the key
setFunc_NoCheck(d, a, in) ==
    LET fromStdin == Arg(a, 2) = <<>>
        value == IF fromStdin THEN Scanln(in) ELSE Arg(a, 2)
        r == putKeyValue(d, Arg(a, 1), value)
    IN  [db |-> r.db, err |-> r.err,
         calls |-> (IF fromStdin THEN <<"fmt.Scanln">> ELSE <<>>) \o <<"putKeyValue">>,
         affected |-> r.affected]

\* the set handler: a for the positional arguments, in for the line on stdin
setFunc(d, a, in) ==
    IF Arg(a, 1) = <<>>
    THEN [db |-> d, err |-> ErrKeyEmpty, calls |-> <<>>, affected |-> 0]
    ELSE LET fromStdin == Arg(a, 2) = <<>>
             value == IF fromStdin THEN Scanln(in) ELSE Arg(a, 2)
             r == putKeyValue(d, Arg(a, 1), value)
         IN  [db |-> r.db, err |-> r.err,
              calls |-> (IF fromStdin THEN <<"fmt.Scanln">> ELSE <<>>)
                         \o <<"putKeyValue">>,
              affected |-> r.affected]

\* the get handler up to its first statement: the exact lookup, the listing
\* with keys only (every key printed), or the listing that opens the loop
getFunc(d, k, ko) ==
    IF k = <<>>
    THEN [pc |-> "done", keys |-> <<>>, out |-> <<>>, err |-> ErrKeyEmpty,
          calls |-> <<>>]
    ELSE IF Last(k) = "*"
    THEN LET ks == listKeysWithPrefix(d, Front(k))
         IN  IF ko
             THEN [pc |-> "done", keys |-> <<>>, out |-> ks, err |-> Nil,
                   calls |-> <<"listKeysWithPrefix">>]
             ELSE [pc |-> IF ks = <<>> THEN "done" ELSE "loop", keys |-> ks,
                   out |-> <<>>, err |-> Nil, calls |-> <<"listKeysWithPrefix">>]
    ELSE LET r == getKey(d, k)
         IN  [pc |-> "done", keys |-> <<>>,
              out |-> IF r.err = Nil THEN <<r.value>> ELSE <<>>,
              err |-> r.err, calls |-> <<"getKey">>]

\* a del handler that deletes the row of its argument
delFunc_Delete(d, a) ==
    IF Len(a) /= 1
    THEN [db |-> d, out |-> <<<<"Invalid number of arguments. Usage: pb del [key]">>>>]
    ELSE [db |-> SelectSeq(d, LAMBDA row : row.k /= a[1]),
          out |-> <<<<"Deleting configuration ">> \o a[1] \o <<"...">>>>]

\* the del handler: a message, and no statement
delFunc(d, a) ==
    IF Len(a) /= 1
    THEN [db |-> d, out |-> <<<<"Invalid number of arguments. Usage: pb del [key]">>>>]
    ELSE [db |-> d, out |-> <<<<"Deleting configuration ">> \o a[1] \o <<"...">>>>]

\* ------------------------------------------------------------------- inputs

Ka == <<"a">>
Kb == <<"b">>
\* a key one character longer than the column k holds, and a value one byte
\* longer than the column v holds
LongKey == <<>> \o Rep("a", MaxKeyLen + 1)
BigValue == <<>> \o Rep("x", MaxBlobLen + 1)

SetKeys == {<<>>, Ka, Kb, LongKey}
ArgValues == {<<>>, <<"x">>}
SetArgs == {<<k>> : k \in SetKeys} \cup {<<k, v>> : k \in SetKeys, v \in ArgValues}
StdinLines == {<<>>, <<"x">>, <<" ", "x", " ", "z">>}
GetKeys == {<<>>, Ka, Kb, <<"*">>, <<"a", "*">>, <<"_", "*">>}
DelArgs == {<<>>, <<Ka>>, <<Ka, Kb>>}

\* ------------------------------------------------------------------ actions

Init ==
    /\ db = <<>>
    /\ pc = [p \in Procs |-> "idle"]
    /\ cmd = [p \in Procs |-> ""]
    /\ args = [p \in Procs |-> <<>>]
    /\ keysOnly = [p \in Procs |-> FALSE]
    /\ keys = [p \in Procs |-> <<>>]
    /\ out = [p \in Procs |-> <<>>]
    /\ err = [p \in Procs |-> Nil]
    /\ calls = [p \in Procs |-> <<>>]
    /\ affected = [p \in Procs |-> 0]

\* pb set <key> [value]
Set(p) ==
    /\ pc[p] /= "loop"
    /\ \E a \in SetArgs, in \in StdinLines :
         \E r \in {setFunc(db, a, in)} :
             /\ db' = r.db
             /\ pc' = [pc EXCEPT ![p] = "done"]
             /\ cmd' = [cmd EXCEPT ![p] = "set"]
             /\ args' = [args EXCEPT ![p] = a]
             /\ keysOnly' = [keysOnly EXCEPT ![p] = FALSE]
             /\ keys' = [keys EXCEPT ![p] = <<>>]
             /\ out' = [out EXCEPT ![p] = <<>>]
             /\ err' = [err EXCEPT ![p] = r.err]
             /\ calls' = [calls EXCEPT ![p] = Prelude \o r.calls]
             /\ affected' = [affected EXCEPT ![p] = r.affected]

\* pb get <key>, where ko is the value option parsing leaves in keysOnly
\* (the option -k is registered with the default true, so key=value mode is
\* the run with -k=false)
GetWith(p, k, ko) ==
    /\ pc[p] /= "loop"
    /\ \E r \in {getFunc(db, k, ko)} :
           /\ pc' = [pc EXCEPT ![p] = r.pc]
           /\ cmd' = [cmd EXCEPT ![p] = "get"]
           /\ args' = [args EXCEPT ![p] = <<k>>]
           /\ keysOnly' = [keysOnly EXCEPT ![p] = ko]
           /\ keys' = [keys EXCEPT ![p] = r.keys]
           /\ out' = [out EXCEPT ![p] = r.out]
           /\ err' = [err EXCEPT ![p] = r.err]
           /\ calls' = [calls EXCEPT ![p] = Prelude \o r.calls]
           /\ affected' = [affected EXCEPT ![p] = 0]
           /\ UNCHANGED db

Get(p) == \E k \in GetKeys, ko \in BOOLEAN : GetWith(p, k, ko)

\* one iteration of the loop over the listed keys (key=value mode)
GetEach(p) ==
    /\ pc[p] = "loop"
    /\ \E k \in {Head(keys[p])} : \E r \in {getKey(db, k)} :
           /\ calls' = [calls EXCEPT ![p] = Append(@, "getKey")]
           /\ err' = [err EXCEPT ![p] = r.err]
           /\ IF r.err /= Nil
              THEN /\ pc' = [pc EXCEPT ![p] = "done"]
                   /\ UNCHANGED <<keys, out>>
              ELSE /\ out' = [out EXCEPT ![p] = Append(@, k \o <<"=">> \o r.value)]
                   /\ keys' = [keys EXCEPT ![p] = Tail(@)]
                   /\ pc' = [pc EXCEPT ![p] =
                               IF Tail(keys[p]) = <<>> THEN "done" ELSE "loop"]
    /\ UNCHANGED <<db, cmd, args, keysOnly, affected>>

\* pb del ...
Del(p) ==
    /\ pc[p] /= "loop"
    /\ \E a \in DelArgs :
         \E r \in {delFunc(db, a)} :
             /\ db' = r.db
             /\ pc' = [pc EXCEPT ![p] = "done"]
             /\ cmd' = [cmd EXCEPT ![p] = "del"]
             /\ args' = [args EXCEPT ![p] = a]
             /\ keysOnly' = [keysOnly EXCEPT ![p] = FALSE]
             /\ keys' = [keys EXCEPT ![p] = <<>>]
             /\ out' = [out EXCEPT ![p] = r.out]
             /\ err' = [err EXCEPT ![p] = Nil]
             /\ calls' = [calls EXCEPT ![p] = Prelude]
             /\ affected' = [affected EXCEPT ![p] = 0]

\* pb config
Config(p) ==
    /\ pc[p] /= "loop"
    /\ pc' = [pc EXCEPT ![p] = "done"]
    /\ cmd' = [cmd EXCEPT ![p] = "config"]
    /\ args' = [args EXCEPT ![p] = <<>>]
    /\ keysOnly' = [keysOnly EXCEPT ![p] = FALSE]
    /\ keys' = [keys EXCEPT ![p] = <<>>]
    /\ out' = [out EXCEPT ![p] = <<<<"Please enter your database connection string:">>>>]
    /\ err' = [err EXCEPT ![p] = Nil]
    /\ calls' = [calls EXCEPT ![p] =
                   Prelude \o <<"readConfigFromStdin", "saveConfigToFile">>]
    /\ affected' = [affected EXCEPT ![p] = 0]
    /\ UNCHANGED db

Next == \E p \in Procs : Set(p) \/ Get(p) \/ GetEach(p) \/ Del(p) \/ Config(p)

Spec == Init /\ [][Next]_vars

\* ------------------------------------------------- the listing on big tables

DigitChars == <<"0", "1", "2", "3", "4", "5", "6", "7", "8", "9">>

\* i in four decimal digits
Digits(i) ==
    << DigitChars[((i \div 1000) % 10) + 1], DigitChars[((i \div 100) % 10) + 1],
       DigitChars[((i \div 10) % 10) + 1], DigitChars[(i % 10) + 1] >>

Reverse(s) == [i \in 1..Len(s) |-> s[Len(s) + 1 - i]]

\* n rows with the keys c0001, c0002, ...
BulkRows(c, n) == [i \in 1..n |-> [k |-> <<c>> \o Digits(i), v |-> <<"x">>]]

\* tables of Limit - 1, Limit and Limit + 1 rows, of which m have a key that
\* starts with "b", in two scan orders
BulkTables ==
    UNION { { BulkRows("a", n - m) \o BulkRows("b", m),
              BulkRows("b", m) \o Reverse(BulkRows("a", n - m)) } :
            n \in {Limit - 1, Limit, Limit + 1}, m \in 0..MaxOther }

ListKeys == { <<"*">>, <<"a", "*">>, <<"b", "*">>, <<"_", "*">>,
              <<"a", "0", "*">>, <<"a", "\\", "*">> }

InitList ==
    /\ db \in BulkTables
    /\ pc = [p \in Procs |-> "idle"]
    /\ cmd = [p \in Procs |-> ""]
    /\ args = [p \in Procs |-> <<>>]
    /\ keysOnly = [p \in Procs |-> FALSE]
    /\ keys = [p \in Procs |-> <<>>]
    /\ out = [p \in Procs |-> <<>>]
    /\ err = [p \in Procs |-> Nil]
    /\ calls = [p \in Procs |-> <<>>]
    /\ affected = [p \in Procs |-> 0]

\* pb get --k <prefix>* on a big table, one invocation after the other (no
\* statement of this specification changes the table)
NextList == \E k \in ListKeys : GetWith(1, k, TRUE)

SpecList == InitList /\ [][NextList]_vars

\* ------------------------------------------------------------------- claims

\* what process p holds
Locals(p) ==
    <<pc[p], cmd[p], args[p], keysOnly[p], keys[p], out[p], err[p], calls[p], affected[p]>>

\* p ran get <prefix>*
IsWildcard(p) ==
    cmd[p] = "get" /\ args[p] /= <<>> /\ args[p][1] /= <<>> /\ Last(args[p][1]) = "*"

\* p ran get <key> with a key that is not a pattern
IsExact(p) ==
    cmd[p] = "get" /\ args[p] /= <<>> /\ args[p][1] /= <<>> /\ Last(args[p][1]) /= "*"

\* the keys of the listing of p that are not printed yet, and those printed
Printed(p) ==
    IF keysOnly[p] THEN out[p]
    ELSE [i \in 1..Len(out[p]) |-> Token(
             [j \in 1..Len(out[p][i]) |-> IF out[p][i][j] = "=" THEN " " ELSE out[p][i][j]])]

Range(s) == {s[i] : i \in 1..Len(s)}

PutKeys == SetKeys \ {<<>>}
PutValues == {<<>>, <<"x">>, <<"y">>, BigValue}

\* Put(k, v1), Put(k, v2), Get(k) from table d: Get returns v2 and the rows of
\* the other keys are those of d
OverwriteHolds(d, k, v1, v2) ==
    LET d1 == putKeyValue(d, k, v1).db
        d2 == putKeyValue(d1, k, v2).db
    IN  /\ getKey(d2, k) = [value |-> v2, err |-> Nil]
        /\ \A i \in 1..Len(d) : d[i].k /= k => (i <= Len(d2) /\ d2[i] = d[i])
        /\ \A i \in 1..Len(d2) : d2[i].k /= k => (i <= Len(d) /\ d[i] = d2[i])

\* C1 as stated: for every non-empty key and every pair of byte sequences
\* v1, v2, from every reachable table, Put(key, v1) then Put(key, v2) then
\* Get(key) returns v2 and no other record changes.
C1_OverwriteAnyKey ==
    \A k \in PutKeys : \A v1 \in PutValues : \A v2 \in PutValues :
        OverwriteHolds(db, k, v1, v2)

\* C1, amended: the same for every non-empty key of at most 255 characters
\* and byte sequences of at most 65535 bytes (what the columns k VARCHAR(255)
\* and v BLOB hold).
C1_OverwriteWithinColumns ==
    \A k \in PutKeys : \A v1 \in PutValues : \A v2 \in PutValues :
        (Len(k) <= MaxKeyLen /\ Len(v1) <= MaxBlobLen /\ Len(v2) <= MaxBlobLen)
            => OverwriteHolds(db, k, v1, v2)

\* a set replaced the value of an existing key by another value, and a later
\* get of that key printed the new value
C1_Witness ==
    \E p \in Procs : \E q \in Procs :
        /\ cmd[p] = "set" /\ Len(args[p]) = 2 /\ affected[p] = 2 /\ err[p] = Nil
        /\ IsExact(q) /\ args[q][1] = args[p][1]
        /\ err[q] = Nil /\ out[q] = <<args[p][2]>>
        /\ getKey(db, args[p][1]).value = args[p][2]

\* C2 as stated: the listing of a prefix returns only keys that literally
\* start with the prefix, also for prefixes with '%' or '_', and all of them
\* when fewer than 1000 do.
C2_ListLiteralPrefix ==
    /\ \A p \in Procs : IsWildcard(p) =>
         \A k \in Range(keys[p]) \cup Range(Printed(p)) :
             StartsWith(k, Front(args[p][1]))
    /\ \A g \in GetKeys : (g /= <<>> /\ Last(g) = "*") =>
         LET starting == {k \in Range(KeysOf(db)) : StartsWith(k, Front(g))}
         IN  /\ Range(listKeysWithPrefix(db, Front(g))) \subseteq starting
             /\ Cardinality(starting) < Limit
                  => Range(listKeysWithPrefix(db, Front(g))) = starting

\* C3: a set with an empty key fails with "key is empty" and writes nothing:
\* from every reachable table the handler leaves the table as it is, issues
\* no statement, and no row with an empty key ever exists.
C3_EmptyKeyNoWrite ==
    /\ \A a \in SetArgs : \A in \in StdinLines :
         Arg(a, 1) = <<>> =>
            /\ setFunc(db, a, in).db = db
            /\ setFunc(db, a, in).err = ErrKeyEmpty
    /\ \A p \in Procs : (cmd[p] = "set" /\ Arg(args[p], 1) = <<>>) =>
            /\ err[p] = ErrKeyEmpty
            /\ calls[p] = Prelude
    /\ RowsOf(db, <<>>) = {}

\* a set with an empty key has failed while the table holds records
C3_Witness ==
    \E p \in Procs :
        /\ cmd[p] = "set" /\ Len(args[p]) = 2 /\ args[p][1] = <<>>
        /\ err[p] = ErrKeyEmpty
        /\ db /= <<>>

\* C4: a lookup of a key without a record fails with the not-found error and
\* prints nothing, while a key with a record (also one with an empty value)
\* is printed without error.
C4_MissingKeyNotFound ==
    /\ \A k \in SetKeys \cup GetKeys :
         IF RowsOf(db, k) = {}
         THEN getKey(db, k).err = ErrNoRows
         ELSE getKey(db, k).err = Nil
    /\ \A p \in Procs : IsExact(p) =>
         /\ RowsOf(db, args[p][1]) = {} => (err[p] = ErrNoRows /\ out[p] = <<>>)
         /\ err[p] = Nil => Len(out[p]) = 1
         /\ err[p] \in {Nil, ErrNoRows}

\* one get failed with not-found on a key never written, another printed the
\* empty value of a key that has a record
C4_Witness ==
    \E p \in Procs : \E q \in Procs :
        /\ IsExact(p) /\ RowsOf(db, args[p][1]) = {} /\ err[p] = ErrNoRows
        /\ IsExact(q) /\ err[q] = Nil /\ out[q] = << <<>> >>

Statements == {"putKeyValue", "getKey", "listKeysWithPrefix"}

\* C5 as stated: in every run, a put, get or list statement is issued only
\* after prepareDatabase has run, which itself follows the connection.
C5_EnsureSchemaFirst ==
    \A p \in Procs : \A i \in 1..Len(calls[p]) :
        calls[p][i] \in Statements =>
            \E j \in 1..(i - 1) : \E c \in 1..(j - 1) :
                calls[p][j] = "prepareDatabase" /\ calls[p][c] = "sql.Open"

\* C6: a step in which a process runs del leaves every record as it was.
C6_DelDeletesNothing ==
    [][\A p \in Procs :
          (Locals(p)' /= Locals(p) /\ cmd'[p] = "del") => db' = db]_vars

\* del <key> has printed its message and the record of the key is there
C6_Witness ==
    \E p \in Procs :
        /\ cmd[p] = "del" /\ Len(args[p]) = 1
        /\ out[p] = << <<"Deleting configuration ">> \o args[p][1] \o <<"...">> >>
        /\ RowsOf(db, args[p][1]) /= {}

\* C7: the table holds at most one record per key.
C7_OneRecordPerKey ==
    \A i \in 1..Len(db) : \A j \in 1..Len(db) : db[i].k = db[j].k => i = j

\* two processes have put the same key, the second on the record of the first
C7_Witness ==
    \E p \in Procs : \E q \in Procs :
        /\ p /= q
        /\ cmd[p] = "set" /\ cmd[q] = "set"
        /\ err[p] = Nil /\ err[q] = Nil
        /\ Arg(args[p], 1) = Arg(args[q], 1)
        /\ affected[p] = 1 /\ affected[q] = 2
        /\ Len(db) >= 2

\* C8: a listing returns at most 1000 keys.
C8_AtMostLimit ==
    \A p \in Procs : IsWildcard(p) => Len(keys[p]) + Len(out[p]) <= Limit

\* more than 1000 keys start with the prefix and the listing printed 1000
C8_Witness ==
    \E p \in Procs :
        /\ IsWildcard(p)
        /\ Cardinality({i \in 1..Len(db) : StartsWith(db[i].k, Front(args[p][1]))}) > Limit
        /\ Len(out[p]) = Limit

\* C9 as stated: with a value argument, whatever its content, the value
\* stored is that argument and standard input is not read.
C9_ExplicitValueStored ==
    /\ \A p \in Procs :
         (cmd[p] = "set" /\ Len(args[p]) = 2 /\ args[p][1] /= <<>>) =>
            \A i \in 1..Len(calls[p]) : calls[p][i] /= "fmt.Scanln"
    /\ \A k \in PutKeys : \A v \in ArgValues : \A in \in StdinLines :
         Len(k) <= MaxKeyLen =>
            getKey(setFunc(db, <<k, v>>, in).db, k) = [value |-> v, err |-> Nil]

\* C10: in key=value mode no lookup of a listed key fails with not-found:
\* the get ends without error, and every key still to look up has a record.
C10_ListedKeysFound ==
    \A p \in Procs : (IsWildcard(p) /\ ~keysOnly[p]) =>
        /\ err[p] = Nil
        /\ \A k \in Range(keys[p]) : RowsOf(db, k) /= {}

\* a process is inside the loop, and the table holds a key of its prefix
\* that its listing did not return: a set ran after the listing and before
\* the lookup that follows
C10_Witness ==
    \E p \in Procs :
        /\ IsWildcard(p) /\ ~keysOnly[p] /\ pc[p] = "loop"
        /\ \E i \in 1..Len(db) :
               /\ StartsWith(db[i].k, Front(args[p][1]))
               /\ db[i].k \notin Range(keys[p]) \cup Range(Printed(p))

====
